---- MODULE Spec2Model ----
(***************************************************************************)
(* Model of hearthstone/hslog/packets.py: the packet tree, its export into *)
(* an entity graph and the friendly-player heuristic.                      *)
(***************************************************************************)
EXTENDS Integers, Sequences, FiniteSets, TLC

(***************************************************************************)
(* Values of hearthstone.enums used by packets.py.                         *)
(***************************************************************************)
\* Packet.power_type of the base class (packets.py:93)
NO_POWER_TYPE == 0
FULL_ENTITY == 1
SHOW_ENTITY == 2
HIDE_ENTITY == 3
TAG_CHANGE == 4
BLOCK_START == 5
CREATE_GAME == 7
META_DATA == 8
CHANGE_ENTITY == 9

\* Zone.PLAY and Zone.HAND
PLAY == 1
HAND == 3
DECK == 2

\* GameTag.ZONE and GameTag.CONTROLLER
ZONE == "ZONE"
CONTROLLER == "CONTROLLER"
TagKeys == {ZONE, CONTROLLER}

\* Python's None where an integer is expected (a bare return, dict.get of a
\* missing key, a missing timestamp)
None == -1

\* A card id that is None
NoCardId == ""

\* Python truthiness of an integer-or-None value: None and 0 are false
Truthy(v) == v # None /\ v # 0

(***************************************************************************)
(* Packets.  Every packet is one record; the fields a class does not have  *)
(* hold None, NoCardId or the empty sequence.                              *)
(*   cls          the Python class (dynamic dispatch of _export)           *)
(*   power_type   the class attribute power_type                           *)
(*   entity       the entity id the packet names                           *)
(*   tags         the accumulated (key, value) sequence                    *)
(*   entity_tags  the mapping read as packet.entity.tags                   *)
(*   packets      the children of a Block                                  *)
(*   players      the Player descriptors of CreateGame                     *)
(***************************************************************************)
NoTags == [k \in TagKeys |-> None]

Packet(cls, power_type, entity, card_id, tags, entity_tags, tag, value, zone) ==
    [cls |-> cls, power_type |-> power_type, ts |-> None, entity |-> entity,
     card_id |-> card_id, tags |-> tags, entity_tags |-> entity_tags,
     tag |-> tag, value |-> value, zone |-> zone, ended |-> FALSE,
     packets |-> << >>, players |-> << >>]

Block(children) ==
    [Packet("Block", BLOCK_START, None, NoCardId, << >>, NoTags, "", None, None)
        EXCEPT !.ended = TRUE, !.packets = children]

MetaData == Packet("MetaData", META_DATA, None, NoCardId, << >>, NoTags, "", None, None)

Player(id, player_id, hi, lo) ==
    [ts |-> None, entity |-> id, player_id |-> player_id, hi |-> hi, lo |-> lo,
     tags |-> << >>]

CreateGame(entity, players) ==
    [Packet("CreateGame", CREATE_GAME, entity, NoCardId, << >>, NoTags, "", None, None)
        EXCEPT !.players = players]

HideEntity(entity, zone) ==
    Packet("HideEntity", HIDE_ENTITY, entity, NoCardId, << >>, NoTags, "", None, zone)

FullEntity(entity, card_id, tags) ==
    Packet("FullEntity", FULL_ENTITY, entity, card_id, tags, NoTags, "", None, None)

ShowEntity(entity, card_id, tags, entity_tags) ==
    Packet("ShowEntity", SHOW_ENTITY, entity, card_id, tags, entity_tags, "", None, None)

ChangeEntity(entity, card_id, tags) ==
    Packet("ChangeEntity", CHANGE_ENTITY, entity, card_id, tags, NoTags, "", None, None)

TagChange(entity, tag, value) ==
    Packet("TagChange", TAG_CHANGE, entity, NoCardId, << >>, NoTags, tag, value, None)

\* Choices, SendChoices, ChosenEntities, Options, Option, SendOption: none of
\* them sets power_type, so each has the base class's
Sink(cls, entity) ==
    Packet(cls, NO_POWER_TYPE, entity, NoCardId, << >>, NoTags, "", None, None)

SinkClasses ==
    {"Choices", "SendChoices", "ChosenEntities", "Options", "Option", "SendOption"}

\* The classes that define _export(self, game)
ExportClasses ==
    {"Block", "MetaData", "HideEntity", "FullEntity", "ShowEntity", "ChangeEntity",
     "TagChange", "Choices", "SendChoices", "ChosenEntities", "Options", "SendOption"}

(***************************************************************************)
(* dict(tags): the fold of an accumulated (key, value) sequence.  Python's *)
(* dict() inserts the pairs in order, a later pair replacing an earlier    *)
(* one with the same key.  A key that never occurs maps to None.           *)
(***************************************************************************)
\* Mutant: a fold in which the first pair of a key wins
RECURSIVE dict_first_wins(_)
dict_first_wins(tags) ==
    IF tags = << >> THEN NoTags
    ELSE LET rest == dict_first_wins(Tail(tags))
         IN  [rest EXCEPT ![tags[1][1]] = tags[1][2]]

RECURSIVE dict(_)
dict(tags) ==
    IF tags = << >> THEN NoTags
    ELSE LET n == Len(tags)
             front == dict(SubSeq(tags, 1, n - 1))
         IN  [front EXCEPT ![tags[n][1]] = tags[n][2]]

(***************************************************************************)
(* The entity graph (hearthstone.entities): a Game holds the entities      *)
(* registered with it, in registration order.                              *)
(***************************************************************************)
Entity(kind, id, card_id) ==
    [kind |-> kind, id |-> id, card_id |-> card_id, tags |-> NoTags,
     revealed |-> FALSE, player_id |-> None, hi |-> None, lo |-> None]

\* game.register_entity(entity)
register_entity(game, entity) == Append(game, entity)

\* game.find_entity_by_id(id): the position of the entity, 0 for None
find_entity_by_id(game, id) ==
    IF \E i \in 1..Len(game) : game[i].id = id
    THEN CHOOSE i \in 1..Len(game) :
            /\ game[i].id = id
            /\ \A j \in 1..(i - 1) : game[j].id # id
    ELSE 0

\* entity.hide()
hide(entity) == [entity EXCEPT !.revealed = FALSE]

\* entity.reveal(card_id, tags)
reveal(entity, card_id, tags) ==
    [entity EXCEPT !.revealed = TRUE, !.card_id = card_id,
                   !.tags = [k \in TagKeys |->
                                IF tags[k] # None THEN tags[k] ELSE entity.tags[k]]]

\* entity.change(card_id, tags)
change(entity, card_id, tags) ==
    [entity EXCEPT !.card_id = card_id, !.tags = tags]

\* entity.tag_change(tag, value)
tag_change(entity, tag, value) == [entity EXCEPT !.tags[tag] = value]

(***************************************************************************)
(* packet._export(game) of each class: the graph after the call and the    *)
(* exception it raised ("" for none).  A raise leaves the graph as it was. *)
(***************************************************************************)
Done(game) == [raised |-> "", game |-> game]
Raise(exc, game) == [raised |-> exc, game |-> game]

\* Mutant: entities.Player built with hi and lo in each other's place
Player_export_swapped(self, game) ==
    LET player == [Entity("Player", self.entity, NoCardId)
                       EXCEPT !.player_id = self.player_id,
                              !.hi = self.lo, !.lo = self.hi]
    IN  register_entity(game, player)

\* CreateGame.Player._export
Player_export(self, game) ==
    LET player == [Entity("Player", self.entity, NoCardId)
                       EXCEPT !.player_id = self.player_id,
                              !.hi = self.hi, !.lo = self.lo]
    IN  register_entity(game, player)

RECURSIVE Players_export(_, _)
Players_export(players, game) ==
    IF players = << >> THEN game
    ELSE Players_export(Tail(players), Player_export(Head(players), game))

\* CreateGame._export
CreateGame_export(self) ==
    LET game == register_entity(<< >>, Entity("Game", self.entity, NoCardId))
    IN  Players_export(self.players, game)

\* MetaData._export and the _export of Choices, SendChoices, ChosenEntities,
\* Options and SendOption: pass
Pass_export(self, game) == Done(game)

\* Mutant: HideEntity._export that passes over a missing entity
HideEntity_export_skipping(self, game) ==
    LET i == find_entity_by_id(game, self.entity)
    IN  IF i = 0 THEN Done(game)
        ELSE Done([game EXCEPT ![i] = hide(game[i])])

\* HideEntity._export
HideEntity_export(self, game) ==
    LET i == find_entity_by_id(game, self.entity)
    IN  IF i = 0 THEN Raise("AttributeError", game)
        ELSE Done([game EXCEPT ![i] = hide(game[i])])

\* FullEntity._export
FullEntity_export(self, game) ==
    LET entity == [Entity("Card", self.entity, self.card_id)
                       EXCEPT !.tags = dict(self.tags)]
    IN  Done(register_entity(game, entity))

\* Mutant: ShowEntity._export that registers a Card for a missing entity
ShowEntity_export_creating(self, game) ==
    LET i == find_entity_by_id(game, self.entity)
    IN  IF i = 0
        THEN Done(register_entity(game,
                 reveal(Entity("Card", self.entity, NoCardId), self.card_id,
                        dict(self.tags))))
        ELSE Done([game EXCEPT ![i] = reveal(game[i], self.card_id, dict(self.tags))])

\* ShowEntity._export
ShowEntity_export(self, game) ==
    LET i == find_entity_by_id(game, self.entity)
    IN  IF i = 0 THEN Raise("AttributeError", game)
        ELSE Done([game EXCEPT ![i] = reveal(game[i], self.card_id, dict(self.tags))])

\* ChangeEntity._export
ChangeEntity_export(self, game) ==
    LET i == find_entity_by_id(game, self.entity)
    IN  IF i = 0 THEN Raise("AssertionError", game)
        ELSE Done([game EXCEPT ![i] = change(game[i], self.card_id, dict(self.tags))])

\* Mutant: TagChange._export without its assert, skipping a missing entity
TagChange_export_unchecked(self, game) ==
    LET i == find_entity_by_id(game, self.entity)
    IN  IF i = 0 THEN Done(game)
        ELSE Done([game EXCEPT ![i] = tag_change(game[i], self.tag, self.value)])

\* TagChange._export
TagChange_export(self, game) ==
    LET i == find_entity_by_id(game, self.entity)
    IN  IF i = 0 THEN Raise("AssertionError", game)
        ELSE Done([game EXCEPT ![i] = tag_change(game[i], self.tag, self.value)])

\* packet._export(game) for a packet that is no Block: the method of the
\* packet's class; Option and the base class Packet define none, so the
\* attribute lookup raises
Packet_export(self, game) ==
    CASE self.cls = "HideEntity" -> HideEntity_export(self, game)
      [] self.cls = "FullEntity" -> FullEntity_export(self, game)
      [] self.cls = "ShowEntity" -> ShowEntity_export(self, game)
      [] self.cls = "ChangeEntity" -> ChangeEntity_export(self, game)
      [] self.cls = "TagChange" -> TagChange_export(self, game)
      [] self.cls \in ExportClasses \ {"Block"} -> Pass_export(self, game)
      [] OTHER -> Raise("AttributeError", game)

(***************************************************************************)
(* The friendly-player heuristic.  Each function returns the value it      *)
(* returned (None for a bare return or falling off the end) and the        *)
(* exception it raised ("" for none).                                      *)
(***************************************************************************)
Return(value) == [raised |-> "", value |-> value]
Throw(exc) == [raised |-> exc, value |-> None]

\* Mutant: find_unknown_full_entity_in_hand that skips a packet that is not
\* FULL_ENTITY instead of returning
RECURSIVE find_unknown_full_entity_in_hand_skipping(_)
find_unknown_full_entity_in_hand_skipping(packets) ==
    IF packets = << >> THEN Return(None)
    ELSE LET packet == Head(packets)
             tags == dict(packet.tags)
         IN  IF packet.power_type # FULL_ENTITY
             THEN find_unknown_full_entity_in_hand_skipping(Tail(packets))
             ELSE IF tags[ZONE] = None THEN Throw("KeyError")
             ELSE IF tags[ZONE] = HAND /\ packet.card_id = NoCardId
                  THEN IF tags[CONTROLLER] = None THEN Throw("KeyError")
                       ELSE Return(tags[CONTROLLER])
             ELSE find_unknown_full_entity_in_hand_skipping(Tail(packets))

\* find_unknown_full_entity_in_hand(packets)
RECURSIVE find_unknown_full_entity_in_hand(_)
find_unknown_full_entity_in_hand(packets) ==
    IF packets = << >> THEN Return(None)
    ELSE LET packet == Head(packets)
             tags == dict(packet.tags)
         IN  IF packet.power_type # FULL_ENTITY THEN Return(None)
             ELSE IF tags[ZONE] = None THEN Throw("KeyError")
             ELSE IF tags[ZONE] = HAND /\ packet.card_id = NoCardId
                  THEN IF tags[CONTROLLER] = None THEN Throw("KeyError")
                       ELSE Return(tags[CONTROLLER])
             ELSE find_unknown_full_entity_in_hand(Tail(packets))

\* Mutant: find_show_entity that does not skip an entity in PLAY
RECURSIVE find_show_entity_any_zone(_)
find_show_entity_any_zone(packets) ==
    IF packets = << >> THEN Return(None)
    ELSE LET packet == Head(packets)
         IN  IF packet.power_type = SHOW_ENTITY
             THEN IF packet.entity_tags[CONTROLLER] = None THEN Throw("KeyError")
                  ELSE Return(packet.entity_tags[CONTROLLER])
             ELSE IF packet.power_type = BLOCK_START
             THEN LET ret == find_show_entity_any_zone(packet.packets)
                  IN  IF ret.raised # "" \/ Truthy(ret.value) THEN ret
                      ELSE find_show_entity_any_zone(Tail(packets))
             ELSE find_show_entity_any_zone(Tail(packets))

\* find_show_entity(packets)
RECURSIVE find_show_entity(_)
find_show_entity(packets) ==
    IF packets = << >> THEN Return(None)
    ELSE LET packet == Head(packets)
         IN  IF packet.power_type = SHOW_ENTITY
             THEN IF packet.entity_tags[ZONE] = PLAY
                  THEN find_show_entity(Tail(packets))
                  ELSE IF packet.entity_tags[CONTROLLER] = None THEN Throw("KeyError")
                       ELSE Return(packet.entity_tags[CONTROLLER])
             ELSE IF packet.power_type = BLOCK_START
             THEN LET ret == find_show_entity(packet.packets)
                  IN  IF ret.raised # "" \/ Truthy(ret.value) THEN ret
                      ELSE find_show_entity(Tail(packets))
             ELSE find_show_entity(Tail(packets))

\* PacketTree.guess_friendly_player(attempt_old) on the tree whose top-level
\* list is all
guess_friendly_player(all, attempt_old) ==
    LET packets == SubSeq(all, 2, Len(all))
        controller == find_unknown_full_entity_in_hand(packets)
    IN  IF attempt_old /\ controller.raised # "" THEN controller
        ELSE IF attempt_old /\ Truthy(controller.value)
             THEN Return((controller.value % 2) + 1)
        ELSE find_show_entity(packets)

(***************************************************************************)
(* The trees explored: CreateGame followed by at most MaxPackets packets,   *)
(* Blocks and their nested packets counted, over a finite set of leaves.   *)
(***************************************************************************)
MaxPackets == 3

RECURSIVE ForestsOfSize(_, _)
TreesOfSize(leaves, k) ==
    IF k = 1 THEN leaves \cup {Block(<< >>)}
    ELSE {Block(f) : f \in ForestsOfSize(leaves, k - 1)}

ForestsOfSize(leaves, n) ==
    IF n = 0 THEN {<< >>}
    ELSE UNION {{<<t>> \o f : t \in TreesOfSize(leaves, k),
                              f \in ForestsOfSize(leaves, n - k)} : k \in 1..n}

PacketLists(leaves) == UNION {ForestsOfSize(leaves, n) : n \in 0..MaxPackets}

\* Entity 1 is the game, 2 and 3 the players, 4 a card; 5 is never registered
TheCreateGame == CreateGame(1, <<Player(2, 1, 10, 11), Player(3, 2, 20, 21)>>)

Tags(zone, controller) == [k \in TagKeys |-> IF k = ZONE THEN zone ELSE controller]

ExportLeaves ==
    {FullEntity(4, NoCardId, <<<<ZONE, HAND>>, <<CONTROLLER, 1>>, <<ZONE, DECK>>>>),
     FullEntity(2, "CS2_101", << >>),
     ShowEntity(4, "CS2_101", <<<<ZONE, HAND>>>>, Tags(HAND, 1)),
     ShowEntity(5, "CS2_101", << >>, Tags(HAND, 2)),
     ChangeEntity(4, "EX1_001", <<<<ZONE, PLAY>>>>),
     ChangeEntity(5, "EX1_001", << >>),
     TagChange(4, ZONE, PLAY),
     TagChange(5, ZONE, PLAY),
     HideEntity(4, HAND),
     HideEntity(5, HAND),
     MetaData}

SinkLeaves ==
    {FullEntity(4, NoCardId, <<<<ZONE, HAND>>>>), TagChange(4, ZONE, PLAY), MetaData}
        \cup {Sink(cls, 2) : cls \in SinkClasses}

GuessLeaves ==
    {FullEntity(4, NoCardId, <<<<ZONE, HAND>>, <<CONTROLLER, 1>>>>),
     FullEntity(4, NoCardId,
                <<<<ZONE, PLAY>>, <<CONTROLLER, 1>>, <<ZONE, HAND>>, <<CONTROLLER, 2>>>>),
     FullEntity(4, "CS2_101", <<<<ZONE, HAND>>, <<CONTROLLER, 1>>>>),
     FullEntity(4, NoCardId, <<<<ZONE, DECK>>, <<CONTROLLER, 2>>>>),
     FullEntity(4, NoCardId, <<<<CONTROLLER, 2>>>>),
     ShowEntity(4, "CS2_101", <<<<ZONE, HAND>>>>, Tags(HAND, 1)),
     ShowEntity(4, "CS2_101", <<<<ZONE, HAND>>>>, Tags(HAND, 2)),
     ShowEntity(4, "CS2_101", <<<<ZONE, PLAY>>>>, Tags(PLAY, 1)),
     ShowEntity(4, "CS2_101", << >>, Tags(None, 2)),
     ShowEntity(4, "CS2_101", <<<<ZONE, HAND>>>>, Tags(HAND, None)),
     MetaData}

(***************************************************************************)
(* State.                                                                  *)
(*   packets  PacketTree.packets, CreateGame first                         *)
(*   pc       where export() is: "idle", "export", "returned", "raised"    *)
(*   stack    the for loops in progress, outermost first: the list each    *)
(*            iterates and the index of its next packet                    *)
(*   game     the local variable game of export()                          *)
(*   applied  the packets whose _export has run to its end, in order       *)
(*   raised   the exception export() raised, "" for none                   *)
(*   ret      the graph export() returned to its caller, NoGraph for none  *)
(*   guessed  the last call of guess_friendly_player and its outcome       *)
(*   times    what start_time and end_time returned when last read         *)
(*   packets2 a second tree, built apart from the first with the same      *)
(*            structure and payloads                                       *)
(*   pc2, stack2, game2, applied2, raised2, ret2                           *)
(*            the same as pc .. ret, for export() of the second tree       *)
(***************************************************************************)
VARIABLES packets, pc, stack, game, applied, raised, ret, guessed, times,
          packets2, pc2, stack2, game2, applied2, raised2, ret2

second == <<packets2, pc2, stack2, game2, applied2, raised2, ret2>>

first == <<pc, stack, game, applied, raised, ret>>

vars == <<packets, pc, stack, game, applied, raised, ret, guessed, times, second>>

NoGraph == << >>

NotGuessed == [called |-> FALSE, attempt_old |-> FALSE, raised |-> "", value |-> None]

NotRead == [start_read |-> FALSE, start_time |-> None,
            end_read |-> FALSE, end_time |-> None]

InitWith(trees) ==
    /\ packets \in trees
    /\ pc = "idle"
    /\ stack = << >>
    /\ game = NoGraph
    /\ applied = << >>
    /\ raised = ""
    /\ ret = NoGraph
    /\ guessed = NotGuessed
    /\ times = NotRead
    /\ packets2 = packets
    /\ pc2 = "idle"
    /\ stack2 = << >>
    /\ game2 = NoGraph
    /\ applied2 = << >>
    /\ raised2 = ""
    /\ ret2 = NoGraph

InitOver(leaves) == InitWith({<<TheCreateGame>> \o f : f \in PacketLists(leaves)})

Init == InitOver(ExportLeaves)

InitSink == InitOver(SinkLeaves)

InitGuess == InitOver(GuessLeaves)

\* The innermost loop and the packet it is about to take
Top == stack[Len(stack)]
AtEnd == Top.i > Len(Top.packets)
NextPacket == Top.packets[Top.i]
Advance(stk) == [stk EXCEPT ![Len(stk)].i = @ + 1]

\* Mutant: export() taking CreateGame off the tree with self.packets.pop(0)
ExportBegin_popping ==
    /\ pc = "idle"
    /\ game' = CreateGame_export(packets[1])
    /\ applied' = <<packets[1]>>
    /\ packets' = Tail(packets)
    /\ stack' = <<[packets |-> SubSeq(packets, 2, Len(packets)), i |-> 1]>>
    /\ pc' = "export"
    /\ UNCHANGED <<raised, ret, guessed, times, second>>

\* Mutant: the Game is kept between exports, so the entities a second
\* export registered are in the graph when this one starts
ExportBegin_shared_game ==
    /\ pc = "idle"
    /\ game' = game2 \o CreateGame_export(packets[1])
    /\ applied' = <<packets[1]>>
    /\ stack' = <<[packets |-> SubSeq(packets, 2, Len(packets)), i |-> 1]>>
    /\ pc' = "export"
    /\ UNCHANGED <<packets, raised, ret, guessed, times, second>>

\* export(): create_game = self.packets[0]; game = create_game._export();
\* then the loop over self.packets[1:] starts
ExportBegin ==
    /\ pc = "idle"
    /\ game' = CreateGame_export(packets[1])
    /\ applied' = <<packets[1]>>
    /\ stack' = <<[packets |-> SubSeq(packets, 2, Len(packets)), i |-> 1]>>
    /\ pc' = "export"
    /\ UNCHANGED <<packets, raised, ret, guessed, times, second>>

\* Mutant: a Block whose packets are exported only after the loop that took
\* the Block has ended
Block_export_after_siblings(stk, self) ==
    SubSeq(stk, 1, Len(stk) - 1)
        \o <<[packets |-> self.packets, i |-> 1]>>
        \o <<[stk[Len(stk)] EXCEPT !.i = @ + 1]>>

\* Block._export: the loop over the Block's packets starts inside the loop
\* that took the Block
Block_export(stk, self) == Append(Advance(stk), [packets |-> self.packets, i |-> 1])

ExportBlock ==
    /\ pc = "export" /\ ~AtEnd
    /\ NextPacket.cls = "Block"
    /\ stack' = Block_export(stack, NextPacket)
    /\ UNCHANGED <<packets, pc, game, applied, raised, ret, guessed, times, second>>

\* packet._export(game) of any other packet returns
ExportPacket ==
    /\ pc = "export" /\ ~AtEnd
    /\ NextPacket.cls # "Block"
    /\ LET r == Packet_export(NextPacket, game)
       IN  /\ r.raised = ""
           /\ game' = r.game
    /\ applied' = Append(applied, NextPacket)
    /\ stack' = Advance(stack)
    /\ UNCHANGED <<packets, pc, raised, ret, guessed, times, second>>

\* packet._export(game) raises: the exception leaves every loop and export()
ExportRaise ==
    /\ pc = "export" /\ ~AtEnd
    /\ NextPacket.cls # "Block"
    /\ LET r == Packet_export(NextPacket, game)
       IN  /\ r.raised # ""
           /\ raised' = r.raised
    /\ pc' = "raised"
    /\ stack' = << >>
    /\ UNCHANGED <<packets, game, applied, ret, guessed, times, second>>

\* The loop of a Block._export ends: control returns to the enclosing loop
ExportEndBlock ==
    /\ pc = "export" /\ AtEnd
    /\ Len(stack) > 1
    /\ stack' = SubSeq(stack, 1, Len(stack) - 1)
    /\ UNCHANGED <<packets, pc, game, applied, raised, ret, guessed, times, second>>

\* Mutant: return game inside the loop of export(), after its first packet
ExportReturn_in_loop ==
    /\ pc = "export"
    /\ Len(stack) = 1 /\ Top.i > 1
    /\ pc' = "returned"
    /\ ret' = game
    /\ stack' = << >>
    /\ UNCHANGED <<packets, game, applied, raised, guessed, times, second>>

\* The loop of export() ends: return game
ExportReturn ==
    /\ pc = "export" /\ AtEnd
    /\ Len(stack) = 1
    /\ pc' = "returned"
    /\ ret' = game
    /\ stack' = << >>
    /\ UNCHANGED <<packets, game, applied, raised, guessed, times, second>>

\* guess_friendly_player(attempt_old), called while export() is not running
GuessFriendlyPlayer ==
    /\ pc # "export"
    /\ \E attempt_old \in BOOLEAN :
          LET r == guess_friendly_player(packets, attempt_old)
          IN  guessed' = [called |-> TRUE, attempt_old |-> attempt_old,
                          raised |-> r.raised, value |-> r.value]
    /\ UNCHANGED <<packets, pc, stack, game, applied, raised, ret, times, second>>

Next ==
    \/ ExportBegin
    \/ ExportBlock
    \/ ExportPacket
    \/ ExportRaise
    \/ ExportEndBlock
    \/ ExportReturn
    \/ GuessFriendlyPlayer

Spec == Init /\ [][Next]_vars

SpecSink == InitSink /\ [][Next]_vars

SpecGuess == InitGuess /\ [][Next]_vars

(***************************************************************************)
(* start_time and end_time, read on trees whose packets carry timestamps.  *)
(***************************************************************************)
\* PacketTree.start_time
RECURSIVE start_time(_)
start_time(ps) ==
    IF ps = << >> THEN None
    ELSE IF Truthy(Head(ps).ts) THEN Head(ps).ts
    ELSE start_time(Tail(ps))

\* Mutant: end_time without the [::-1], scanning forward
end_time_forward(ps) == start_time(ps)

\* PacketTree.end_time: the loop over self.packets[::-1]
RECURSIVE end_time(_)
end_time(ps) ==
    IF ps = << >> THEN None
    ELSE IF Truthy(ps[Len(ps)].ts) THEN ps[Len(ps)].ts
    ELSE end_time(SubSeq(ps, 1, Len(ps) - 1))

StartTime ==
    /\ times' = [times EXCEPT !.start_read = TRUE, !.start_time = start_time(packets)]
    /\ UNCHANGED <<packets, first, guessed, second>>

EndTime ==
    /\ times' = [times EXCEPT !.end_read = TRUE, !.end_time = end_time(packets)]
    /\ UNCHANGED <<packets, first, guessed, second>>

\* A packet with the timestamp ts
Stamp(packet, ts) == [packet EXCEPT !.ts = ts]

\* A list with the timestamp ts on each of its Blocks (not on their packets)
StampBlocks(ps, ts) ==
    [i \in 1..Len(ps) |-> IF ps[i].cls = "Block" THEN Stamp(ps[i], ts) ELSE ps[i]]

TimeLeaves == {Stamp(MetaData, ts) : ts \in {None, 1, 2}}

TimeTrees ==
    {<<Stamp(TheCreateGame, t)>> \o StampBlocks(f, b) :
        t \in {None, 3}, b \in {None, 4}, f \in PacketLists(TimeLeaves)}

InitTime == InitWith(TimeTrees)

NextTime == StartTime \/ EndTime

SpecTime == InitTime /\ [][NextTime]_vars

(***************************************************************************)
(* Trees for the effects on the graph: packets of every entity class with  *)
(* keys repeated in their tags, and packets without a graph effect.        *)
(***************************************************************************)
GraphLeaves ==
    {FullEntity(4, NoCardId, <<<<ZONE, HAND>>, <<CONTROLLER, 1>>, <<ZONE, DECK>>>>),
     ShowEntity(4, "CS2_101", <<<<CONTROLLER, 2>>, <<ZONE, HAND>>, <<CONTROLLER, 1>>>>,
                Tags(HAND, 1)),
     ShowEntity(5, "CS2_101", << >>, Tags(HAND, 2)),
     ChangeEntity(4, "EX1_001", <<<<ZONE, HAND>>, <<ZONE, PLAY>>>>),
     TagChange(4, CONTROLLER, 2),
     TagChange(5, ZONE, PLAY),
     HideEntity(4, HAND),
     MetaData,
     Sink("Choices", 2),
     Sink("Option", 2)}

InitGraph == InitOver(GraphLeaves)

SpecGraph == InitGraph /\ [][Next]_vars

(***************************************************************************)
(* Trees whose CreateGame declares no, one or two players.                 *)
(***************************************************************************)
CreateGames ==
    {CreateGame(1, players) :
        players \in {<< >>, <<Player(2, 1, 10, 11)>>,
                     <<Player(2, 1, 10, 11), Player(3, 2, 20, 21)>>,
                     <<Player(3, 2, 20, 21), Player(2, 1, 10, 11)>>}}

CreateLeaves ==
    {FullEntity(4, NoCardId, <<<<ZONE, HAND>>>>), TagChange(3, ZONE, PLAY),
     ChangeEntity(2, "EX1_001", <<<<ZONE, PLAY>>>>), MetaData}

InitCreate ==
    InitWith({<<create_game>> \o f :
                create_game \in CreateGames, f \in PacketLists(CreateLeaves)})

SpecCreate == InitCreate /\ [][Next]_vars

(***************************************************************************)
(* export() of the second tree: the steps of export() above, on packets2   *)
(* and the second export's own state.                                      *)
(***************************************************************************)
Top2 == stack2[Len(stack2)]
AtEnd2 == Top2.i > Len(Top2.packets)
NextPacket2 == Top2.packets[Top2.i]

Export2Begin ==
    /\ pc2 = "idle"
    /\ game2' = CreateGame_export(packets2[1])
    /\ applied2' = <<packets2[1]>>
    /\ stack2' = <<[packets |-> SubSeq(packets2, 2, Len(packets2)), i |-> 1]>>
    /\ pc2' = "export"
    /\ UNCHANGED <<packets, first, guessed, times, packets2, raised2, ret2>>

Export2Block ==
    /\ pc2 = "export" /\ ~AtEnd2
    /\ NextPacket2.cls = "Block"
    /\ stack2' = Block_export(stack2, NextPacket2)
    /\ UNCHANGED <<packets, first, guessed, times, packets2, pc2, game2, applied2,
                   raised2, ret2>>

Export2Packet ==
    /\ pc2 = "export" /\ ~AtEnd2
    /\ NextPacket2.cls # "Block"
    /\ LET r == Packet_export(NextPacket2, game2)
       IN  /\ r.raised = ""
           /\ game2' = r.game
    /\ applied2' = Append(applied2, NextPacket2)
    /\ stack2' = Advance(stack2)
    /\ UNCHANGED <<packets, first, guessed, times, packets2, pc2, raised2, ret2>>

Export2Raise ==
    /\ pc2 = "export" /\ ~AtEnd2
    /\ NextPacket2.cls # "Block"
    /\ LET r == Packet_export(NextPacket2, game2)
       IN  /\ r.raised # ""
           /\ raised2' = r.raised
    /\ pc2' = "raised"
    /\ stack2' = << >>
    /\ UNCHANGED <<packets, first, guessed, times, packets2, game2, applied2, ret2>>

Export2EndBlock ==
    /\ pc2 = "export" /\ AtEnd2
    /\ Len(stack2) > 1
    /\ stack2' = SubSeq(stack2, 1, Len(stack2) - 1)
    /\ UNCHANGED <<packets, first, guessed, times, packets2, pc2, game2, applied2,
                   raised2, ret2>>

Export2Return ==
    /\ pc2 = "export" /\ AtEnd2
    /\ Len(stack2) = 1
    /\ pc2' = "returned"
    /\ ret2' = game2
    /\ stack2' = << >>
    /\ UNCHANGED <<packets, first, guessed, times, packets2, game2, applied2, raised2>>

TwinLeaves ==
    {FullEntity(4, NoCardId, <<<<ZONE, HAND>>, <<CONTROLLER, 1>>, <<ZONE, DECK>>>>),
     ShowEntity(4, "CS2_101", <<<<ZONE, HAND>>>>, Tags(HAND, 1)),
     TagChange(4, ZONE, PLAY),
     TagChange(5, ZONE, PLAY),
     MetaData}

InitTwin == InitOver(TwinLeaves)

NextTwin ==
    \/ ExportBegin
    \/ ExportBlock
    \/ ExportPacket
    \/ ExportRaise
    \/ ExportEndBlock
    \/ ExportReturn
    \/ Export2Begin
    \/ Export2Block
    \/ Export2Packet
    \/ Export2Raise
    \/ Export2EndBlock
    \/ Export2Return

SpecTwin == InitTwin /\ [][NextTwin]_vars

(***************************************************************************)
(* Properties.                                                             *)
(***************************************************************************)
\* The packets of a list that are no Blocks, in pre-order: a Block stands
\* for its packets, at its place
RECURSIVE Flatten(_)
Flatten(ps) ==
    IF ps = << >> THEN << >>
    ELSE (IF Head(ps).cls = "Block" THEN Flatten(Head(ps).packets) ELSE <<Head(ps)>>)
            \o Flatten(Tail(ps))

IsPrefix(s, t) == Len(s) <= Len(t) /\ SubSeq(t, 1, Len(s)) = s

Rest == SubSeq(packets, 2, Len(packets))

Registered(id) == \E i \in 1..Len(game) : game[i].id = id

\* C1: export applies the effects in stream order, depth-first: what has
\* been applied so far is always a prefix of the pre-order flattening of the
\* tree, CreateGame first, and when export returns it is the whole
\* flattening, each packet that is no Block applied once.
C1_StreamOrder ==
    /\ IsPrefix(applied, Flatten(packets))
    /\ pc = "idle" => applied = << >>
    /\ pc = "export" => applied[1] = packets[1]
    /\ pc = "returned" => applied = Flatten(packets)

\* A returned export of a tree in which a Block with a child is followed by
\* a sibling
C1_Witness ==
    /\ pc = "returned"
    /\ Len(packets) = 3
    /\ packets[2].cls = "Block" /\ Len(packets[2].packets) = 1
    /\ applied = <<packets[1], packets[2].packets[1], packets[3]>>
    /\ packets[2].packets[1] # packets[3]

\* C2: in every state of an export the graph holds at most one entity per
\* id.
C2_OneEntityPerId ==
    \A i, j \in 1..Len(game) : game[i].id = game[j].id => i = j

\* The packet export is about to take is a TagChange or ChangeEntity whose
\* entity id is not registered
MissingTarget ==
    /\ pc = "export" /\ ~AtEnd
    /\ NextPacket.cls \in {"TagChange", "ChangeEntity"}
    /\ ~Registered(NextPacket.entity)

\* C3: a TagChange or ChangeEntity on an unregistered id aborts export with
\* the assertion failure: the graph gets no entity, no later packet is
\* applied and no graph is returned, then or ever after.
C3_FatalOnMissing ==
    [][/\ MissingTarget =>
            /\ pc' = "raised" /\ raised' = "AssertionError"
            /\ game' = game /\ applied' = applied /\ ret' = NoGraph
       /\ pc = "raised" =>
            /\ pc' = "raised" /\ raised' = raised
            /\ game' = game /\ applied' = applied /\ ret' = NoGraph]_vars

\* An export aborted by the assertion with packets still unapplied
C3_Witness ==
    /\ pc = "raised" /\ raised = "AssertionError"
    /\ Len(applied) + 1 < Len(Flatten(packets))
    /\ Flatten(packets)[Len(applied) + 1].entity = 5
    /\ ~Registered(5)
    /\ ret = NoGraph

\* C4: a MetaData packet and a packet of every decision-sink class has a
\* no-op effect: taking it neither aborts export nor changes the graph.
C4_SinkIsNoOp ==
    [][(/\ pc = "export" /\ ~AtEnd
        /\ NextPacket.cls \in SinkClasses \cup {"MetaData"})
          => (pc' = "export" /\ game' = game)]_vars

\* The SHOW_ENTITY packets the current strategy can answer with
Qualifies(p) == p.power_type = SHOW_ENTITY /\ p.entity_tags[ZONE] # PLAY

FirstQualifying(flat) ==
    CHOOSE i \in 1..Len(flat) :
        Qualifies(flat[i]) /\ \A j \in 1..(i - 1) : ~Qualifies(flat[j])

RECURSIVE PrefixRun(_)
PrefixRun(ps) ==
    IF ps = << >> \/ Head(ps).power_type # FULL_ENTITY THEN << >>
    ELSE <<Head(ps)>> \o PrefixRun(Tail(ps))

\* A FULL_ENTITY whose folded tags have ZONE = HAND and that has no card id
Unknown(p) ==
    /\ p.power_type = FULL_ENTITY
    /\ dict(p.tags)[ZONE] = HAND
    /\ p.card_id = NoCardId

FirstUnknown(run) ==
    CHOOSE i \in 1..Len(run) : Unknown(run[i]) /\ \A j \in 1..(i - 1) : ~Unknown(run[j])

\* C6: with attempt_old, when the FULL_ENTITY prefix run holds an unknown
\* entity in HAND, the result is c % 2 + 1 for the CONTROLLER c of the first
\* one: the other player's id.
C6_LegacyStrategy ==
    LET run == PrefixRun(Rest)
    IN  (/\ guessed.called /\ guessed.attempt_old
         /\ \E i \in 1..Len(run) : Unknown(run[i])
         /\ dict(run[FirstUnknown(run)].tags)[CONTROLLER] # None)
          => LET c == dict(run[FirstUnknown(run)].tags)[CONTROLLER]
             IN  /\ guessed.raised = ""
                 /\ guessed.value = (c % 2) + 1
                 /\ guessed.value # c

\* C7: the legacy strategy looks at the FULL_ENTITY prefix run only: an
\* answer comes from an unknown entity of the run, and a run without one
\* gives no answer whatever follows it or lies inside a Block.
C7_LegacyOnlyPrefix ==
    LET run == PrefixRun(Rest)
        r == find_unknown_full_entity_in_hand(Rest)
    IN  /\ (r.raised = "" /\ r.value # None) =>
              \E i \in 1..Len(run) :
                  Unknown(run[i]) /\ dict(run[i].tags)[CONTROLLER] = r.value
        /\ (\A i \in 1..Len(run) : ~Unknown(run[i]) /\ dict(run[i].tags)[ZONE] # None)
              => r = Return(None)
        /\ (guessed.called /\ guessed.attempt_old /\ guessed.raised = ""
              /\ (\A i \in 1..Len(run) : ~Unknown(run[i]))
              /\ find_show_entity(Rest) = Return(None))
              => guessed.value = None

\* attempt_old was given, an unknown entity in HAND follows a packet that is
\* not FULL_ENTITY, and the answer is none
C7_Witness ==
    /\ guessed.called /\ guessed.attempt_old
    /\ Len(packets) = 3
    /\ packets[2].power_type # FULL_ENTITY
    /\ Unknown(packets[3])
    /\ guessed.raised = "" /\ guessed.value = None

\* C8: with attempt_old the result is the legacy answer when there is one
\* and otherwise what the current strategy returns; without attempt_old it
\* is what the current strategy returns.
C8_CallerContract ==
    guessed.called =>
        LET legacy == find_unknown_full_entity_in_hand(Rest)
            current == find_show_entity(Rest)
            outcome == [raised |-> guessed.raised, value |-> guessed.value]
        IN  IF guessed.attempt_old /\ legacy.raised = "" /\ legacy.value # None
            THEN outcome = Return((legacy.value % 2) + 1)
            ELSE outcome = current

\* C9: guess_friendly_player ends with a player id or no answer, never with
\* an error.
C9_NeverAnError ==
    guessed.called => (guessed.raised = "" /\ guessed.value \in {None, 1, 2})

\* C10: the caller gets a graph only from an export that applied every
\* packet of the tree; an export that has not returned, or that aborted,
\* hands out none.
C10_AllOrNothing ==
    /\ ret # NoGraph => (pc = "returned" /\ applied = Flatten(packets) /\ ret = game)
    /\ pc # "returned" => ret = NoGraph

\* A graph returned by an export of three packets after CreateGame, the
\* last one a change of entity 4
C10_Witness ==
    /\ pc = "returned" /\ ret = game /\ ret # NoGraph
    /\ Len(applied) = 4
    /\ applied[4].cls = "TagChange"

\* The top-level packets that carry a timestamp
Stamped == {i \in 1..Len(packets) : packets[i].ts # None /\ packets[i].ts # 0}

Least(S) == CHOOSE i \in S : \A j \in S : i <= j
Greatest(S) == CHOOSE i \in S : \A j \in S : j <= i

\* C11: start_time is the timestamp of the first top-level packet that has
\* one and end_time that of the last; both are None when no top-level
\* packet has one, whatever the packets inside Blocks carry.
C11_Times ==
    /\ times.start_read =>
          times.start_time = IF Stamped = {} THEN None ELSE packets[Least(Stamped)].ts
    /\ times.end_read =>
          times.end_time = IF Stamped = {} THEN None ELSE packets[Greatest(Stamped)].ts

\* Both were read on a tree whose only timestamps are inside a Block, and
\* both are None
C11_Witness ==
    /\ times.start_read /\ times.end_read
    /\ times.start_time = None /\ times.end_time = None
    /\ Stamped = {}
    /\ \E i \in 1..Len(packets) :
          /\ packets[i].cls = "Block"
          /\ \E j \in 1..Len(packets[i].packets) : packets[i].packets[j].ts # None

\* The step in which the _export of a packet of class cls runs to its end
Applying(cls) ==
    /\ pc = "export" /\ ~AtEnd
    /\ NextPacket.cls = cls
    /\ applied' = Append(applied, NextPacket)

\* The value of the latest pair of tags with key k, None when there is none
LastWrite(tags, k) ==
    LET at == {i \in 1..Len(tags) : tags[i][1] = k}
    IN  IF at = {} THEN None ELSE tags[Greatest(at)][2]

\* The place in the graph of the entity a lookup of id finds
Found(id) == Least({i \in 1..Len(game) : game[i].id = id})

\* C12: the tag mapping FullEntity, ShowEntity and ChangeEntity hand to the
\* graph maps each key of the packet's tags to the value of the key's latest
\* pair and has no other key: the new Card and the changed entity carry
\* exactly that mapping, and a reveal writes those keys and no other.
C12_LastWriteWins ==
    [][/\ Applying("FullEntity") =>
            game'[Len(game')].tags = [k \in TagKeys |-> LastWrite(NextPacket.tags, k)]
       /\ Applying("ChangeEntity") =>
            game'[Found(NextPacket.entity)].tags
                = [k \in TagKeys |-> LastWrite(NextPacket.tags, k)]
       /\ Applying("ShowEntity") =>
            \A k \in TagKeys :
                game'[Found(NextPacket.entity)].tags[k]
                    = IF LastWrite(NextPacket.tags, k) # None
                      THEN LastWrite(NextPacket.tags, k)
                      ELSE game[Found(NextPacket.entity)].tags[k]]_vars

\* A ChangeEntity accumulating ZONE = HAND, then ZONE = PLAY, has just been
\* applied to entity 4, which is now in PLAY
C12_Witness ==
    /\ Len(applied) >= 3
    /\ applied[Len(applied)].cls = "ChangeEntity"
    /\ applied[Len(applied)].tags = <<<<ZONE, HAND>>, <<ZONE, PLAY>>>>
    /\ \E i \in 1..Len(game) : game[i].id = 4
    /\ game[Found(4)].tags[ZONE] = PLAY

\* C13: CreateGame registers, before any other packet's effect, one Game
\* entity with the declared id and then one Player entity per Player
\* descriptor, in declaration order, each with the descriptor's entity id,
\* player_id, hi and lo; CreateGame with two descriptors alone exports to a
\* graph of three entities.
C13_CreateGame ==
    pc # "idle" =>
        LET create_game == packets[1]
            n == Len(create_game.players)
        IN  /\ Len(game) >= 1 + n
            /\ game[1].kind = "Game" /\ game[1].id = create_game.entity
            /\ \A i \in 1..n :
                  /\ game[1 + i].kind = "Player"
                  /\ game[1 + i].id = create_game.players[i].entity
                  /\ game[1 + i].player_id = create_game.players[i].player_id
                  /\ game[1 + i].hi = create_game.players[i].hi
                  /\ game[1 + i].lo = create_game.players[i].lo
            /\ Cardinality({i \in 1..Len(game) : game[i].kind = "Game"}) = 1
            /\ Cardinality({i \in 1..Len(game) : game[i].kind = "Player"}) = n
            /\ applied = <<create_game>> => Len(game) = 1 + n
            /\ (pc = "returned" /\ Len(packets) = 1 /\ n = 2) => Len(ret) = 3

\* The export of a CreateGame with two descriptors and nothing else has
\* returned a graph of the Game and the two Players
C13_Witness ==
    /\ pc = "returned" /\ Len(packets) = 1
    /\ Len(packets[1].players) = 2
    /\ Len(ret) = 3
    /\ ret[2].kind = "Player" /\ ret[2].id = 3 /\ ret[2].hi = 20 /\ ret[2].lo = 21

\* What a graph shows of its entities: ids, kinds, card ids, tag mappings
Shown(graph) ==
    [i \in 1..Len(graph) |->
        [id |-> graph[i].id, kind |-> graph[i].kind, card_id |-> graph[i].card_id,
         tags |-> graph[i].tags]]

MissingShown ==
    /\ pc = "export" /\ ~AtEnd
    /\ NextPacket.cls \in {"ShowEntity", "HideEntity"}
    /\ ~Registered(NextPacket.entity)

\* C15: a ShowEntity or HideEntity on an unregistered id aborts export at
\* that packet, as a ChangeEntity or TagChange does: the packet is not
\* passed over, the graph gets no entity, no later packet is applied and no
\* graph is returned.  The exception is the AttributeError of calling
\* reveal or hide on None.
C15_ShowHideOnMissing ==
    [][/\ MissingShown =>
            /\ pc' = "raised" /\ raised' = "AttributeError"
            /\ game' = game /\ applied' = applied /\ ret' = NoGraph
       /\ (pc = "raised" /\ raised = "AttributeError") =>
            /\ pc' = "raised" /\ raised' = raised
            /\ game' = game /\ applied' = applied /\ ret' = NoGraph]_vars

\* An export aborted at a HideEntity of entity 5 with a packet still
\* unapplied after it
C15_Witness ==
    /\ pc = "raised" /\ raised = "AttributeError"
    /\ Len(applied) + 1 < Len(Flatten(packets))
    /\ Flatten(packets)[Len(applied) + 1] = HideEntity(5, HAND)
    /\ ~Registered(5)
    /\ ret = NoGraph

\* C16: applying HideEntity(entity, zone) to a registered entity marks it
\* hidden and records the packet's zone with it: after the step the entity
\* is not revealed and its zone is the packet's.
C16_HideRecordsZone ==
    [][Applying("HideEntity") =>
          /\ ~game'[Found(NextPacket.entity)].revealed
          /\ game'[Found(NextPacket.entity)].tags[ZONE] = NextPacket.zone]_vars

\* The ids registered in a graph
Ids(graph) == {graph[i].id : i \in 1..Len(graph)}

\* C17: the registered ids only grow, and only CreateGame and FullEntity
\* register: ShowEntity, ChangeEntity, TagChange, HideEntity, MetaData and
\* the decision-sink packets leave the registered ids as they are, and a
\* ShowEntity, ChangeEntity, TagChange or HideEntity on id e changes no
\* entity but the one a lookup of e finds.
C17_OnlyRegistrationsGrow ==
    [][/\ Ids(game) \subseteq Ids(game')
       /\ Len(game) <= Len(game')
       /\ (Ids(game') # Ids(game) \/ Len(game') # Len(game)) =>
            \/ pc = "idle"
            \/ pc = "export" /\ ~AtEnd /\ NextPacket.cls = "FullEntity"
       /\ \A cls \in {"ShowEntity", "ChangeEntity", "TagChange", "HideEntity"} :
            Applying(cls) =>
                \A i \in 1..Len(game) :
                    i # Found(NextPacket.entity) => game'[i] = game[i]
       /\ (/\ pc = "export" /\ ~AtEnd
           /\ NextPacket.cls \in SinkClasses \cup {"MetaData"}) =>
            Ids(game') = Ids(game)]_vars

\* A TagChange has just changed entity 4, registered by a FullEntity, in a
\* graph of four entities
C17_Witness ==
    /\ Len(applied) = 3
    /\ applied[2].cls = "FullEntity"
    /\ applied[3] = TagChange(4, CONTROLLER, 2)
    /\ Ids(game) = {1, 2, 3, 4}
    /\ game[Found(4)].tags[CONTROLLER] = 2

\* C18: export and guess_friendly_player leave the tree as it is (the
\* top-level list, every Block's packets and ended flag, every packet's
\* tags), so a call of guess_friendly_player with the same attempt_old
\* returns the same before export, after it, and again.
C18_TreeReadOnly ==
    [][/\ packets' = packets
       /\ (guessed.called /\ guessed'.attempt_old = guessed.attempt_old) =>
            guessed' = guessed]_vars

\* guess_friendly_player has answered from a SHOW_ENTITY inside a Block and
\* export has returned
C18_Witness ==
    /\ guessed.called /\ guessed.value = 1
    /\ pc = "returned"
    /\ \E i \in 2..Len(packets) :
          /\ packets[i].cls = "Block" /\ packets[i].ended
          /\ Len(packets[i].packets) > 0
          /\ packets[i].packets[1].power_type = SHOW_ENTITY

====
